---- MODULE Spec2Model ----
(***************************************************************************)
(* The FOMC ingestion / alignment / decision / commit workflow of          *)
(* src/src/fomc/fomc_workflow.py over the store of                         *)
(* src/src/fomc/fomc_database.py.                                          *)
(*                                                                         *)
(* A date string 'YYYY-MM-DD' is the triple <<Y, M, D>>: Python compares   *)
(* the zero-padded strings character by character, which is the            *)
(* lexicographic order of the triples.  Python's None is the empty tuple.  *)
(* A text is <<n>>; the empty string is <<0>>.                             *)
(***************************************************************************)
EXTENDS Integers, Sequences, FiniteSets, TLC

\* ------------------------------------------------------------- bounds
\* Days of January 2025 the calendar of the model runs over (today and the
\* dates a canonical URL can carry); day 00 is carried as well, as a
\* date string that is no calendar date.
MaxDay == 2
\* Distinct non-empty document bodies the source can serve.
MaxBody == 1
\* Distinct schema-valid analysis results the model can return.
MaxContent == 2
\* Calls of run() in one behaviour.
MaxRuns == 2
\* Fetchers that answer with a document in one run (the others answer absent).
MaxFetched == 2
\* Reads of node_pull_db_state that the database fails in one run.
MaxUnread == 1
\* Characters of the longest text given to _split_message.
MaxText == 5
\* The largest limit _split_message is called with.
MaxLimit == 3
\* The default limit of _split_message, 4000 characters in the source,
\* scaled to the texts of the model.
DefaultLimit == 4
\* Chats in one call of send_analysis.
MaxChats == 2
\* Calls of _send_message that fail in one call of send_analysis.
MaxFails == 2

\* ------------------------------------------------------------- values
None == << >>
EmptyText == <<0>>
Texts == {<<b>> : b \in 1..MaxBody}
Contents == {<<c>> : c \in 1..MaxContent}
DateOf(d) == <<2025, 1, d>>
\* what extract_date_from_url can hand back: eight digits cut 4-2-2
DateStrs == {DateOf(d) : d \in 0..MaxDay}
DocTypes == {"statement", "minutes", "projection_note", "implementation_note"}

\* ------------------------------------------------------------- dates
IsLeap(y) == (y % 4 = 0 /\ y % 100 # 0) \/ y % 400 = 0
DaysInMonth(y, m) ==
    IF m \in {4, 6, 9, 11} THEN 30
    ELSE IF m = 2 THEN (IF IsLeap(y) THEN 29 ELSE 28)
    ELSE 31
\* datetime.strptime(s, "%Y-%m-%d") succeeds
strptime_ok(s) ==
    /\ s[1] \in 1..9999
    /\ s[2] \in 1..12
    /\ s[3] \in 1..DaysInMonth(s[1], s[2])
\* a <= b on 'YYYY-MM-DD' strings / on dates
DateLE(a, b) ==
    \/ a[1] < b[1]
    \/ a[1] = b[1] /\ a[2] < b[2]
    \/ a[1] = b[1] /\ a[2] = b[2] /\ a[3] <= b[3]
\* max() of a non-empty list of date strings
max_oldest(S) == CHOOSE x \in S : \A y \in S : DateLE(x, y)
max(S) == CHOOSE x \in S : \A y \in S : DateLE(y, x)

is_valid_date_anyday(date_str, now) ==
    IF date_str = None THEN FALSE
    ELSE strptime_ok(date_str)
is_valid_date(date_str, now) ==
    IF date_str = None THEN FALSE
    ELSE IF strptime_ok(date_str) THEN DateLE(date_str, now)
    ELSE FALSE

VARIABLES
    today,              \* day of January 2025 that datetime.now() falls on
    docs,               \* the four document tables: type -> set of rows
    monetary_policies,  \* analysis.monetary_policies: set of verdict rows
    pc,                 \* node of the graph the run is at, or "idle"
    state,              \* FOMCGraphState of the run in progress
    source,             \* what the four fetchers return in this run
    pre,                \* the store as it was when this run began
    llm_calls,          \* calls of self.llm.invoke in this run
    sent_history,       \* the Historical Data of the last message handed to it
    second,             \* this run repeats the previous one, same responses
    runs,               \* calls of run() so far
    failed,             \* the writes and reads of this run that raised in the database
    connections,        \* database connections opened and not closed
    prompt_bound,       \* the global name FOMC_ANALYSIS_PROMPT resolves
    faulty,             \* the database may fail a write
    read_faulty,        \* the database may fail a read
    upserted,           \* the last upsert called on the store directly
    http,               \* what the source answers each fetcher called directly
    other,              \* a second run in progress, while the first one steps
    last_target,        \* max_date of the latest run that aligned a cycle
    job,                \* what the entry point that called run() did with its result
    users,              \* the table users.users: set of rows
    split,              \* the last call of _split_message and what it returned
    sending,            \* the last call of send_analysis and the messages it posted
    registered          \* the last call of register_user and how it ended

\* what a behaviour fixes at its start
modes == <<prompt_bound, faulty, read_faulty>>
\* the Telegram side: entry points, subscribers, sender
telegram == <<job, users, split, sending, registered>>
vars == <<today, docs, monetary_policies, pc, state, source, pre, llm_calls, sent_history,
          second, runs, failed, connections, modes, upserted, http, other, last_target,
          telegram>>

Today == DateOf(today)

\* ------------------------------------------------------------- fetch
Absent == [new_release_date |-> None, body |-> EmptyText]
FetchResults == {Absent} \cup [new_release_date : DateStrs, body : Texts]
\* fetch_all_fomc_data: four independent results
fetch_all_fomc_data ==
    {f \in [DocTypes -> FetchResults] :
        Cardinality({t \in DocTypes : f[t] # Absent}) <= MaxFetched}
EmptyDict == [new_release_date |-> None, body |-> None]
NoFetch == [t \in DocTypes |-> EmptyDict]

\* ------------------------------------------------------------- fetchers
\* A URL is the text put in its template: a date as 'YYYYMMDD', a date as
\* 'YYYY-MM-DD', or None for a text with no date.  What requests.get and the
\* parse come to: no response (timeout, connection error), a status, a page
\* that html.parser or the og:url lookup raise on, or a page with or without
\* div#article and with or without an og:url meta tag.
\* A date written as 'YYYYMMDD', eight digits in a row: the year, month and
\* day of 'YYYY-MM-DD' and a fourth component for the form
Digits8(d) == <<d[1], d[2], d[3], 8>>
IsDigits8(text) == Len(text) = 4
get_today(now) == Digits8(now)

Outcomes == {"network_error", "404", "500", "parse_error", "200"}
HttpResponse(outcome, article, meta, og_digits) ==
    [outcome |-> outcome, article |-> article, meta |-> meta, og_digits |-> og_digits]
HttpFailures ==
    {HttpResponse(o, None, FALSE, None) :
        o \in {"network_error", "404", "500", "parse_error"}}
HttpPages ==
    {HttpResponse("200", a, FALSE, None) : a \in {None} \cup Texts}
    \cup {HttpResponse("200", a, TRUE, d) :
             a \in {None} \cup Texts,
             d \in {None} \cup {Digits8(x) : x \in DateStrs}}
HttpResponses == HttpFailures \cup HttpPages
NoHttp == [t \in DocTypes |-> HttpResponse("none", None, FALSE, None)]

\* normalize_date: today as YYYYMMDD when no date is given, else the date
\* without its dashes
normalize_date(date_str, now) ==
    IF date_str = None THEN get_today(now)
    ELSE IF IsDigits8(date_str) THEN date_str
    ELSE Digits8(date_str)
\* the URL a fetcher asks for, as the text put in its template: date_str goes
\* through normalize_date only when it is None, a given date_str is put in
\* as it is
request_url(date_str, now) ==
    IF date_str = None THEN normalize_date(date_str, now) ELSE date_str
\* extract_date_from_url: the first run of eight digits with dashes put in,
\* None when the URL has no such run; the URLs of the source have no digits
\* but those of the date
extract_date_from_url(url) ==
    IF IsDigits8(url) THEN <<url[1], url[2], url[3]>> ELSE None
Returned(result) == [raised |-> FALSE, result |-> result]
Raised == [raised |-> TRUE, result |-> Absent]

\* the try block of fetch: 404 returns at once, raise_for_status raises on
\* another error status, a page gives its text and the date of its og:url
\* (of the asked URL when it has none)
fetch_try(response, url) ==
    IF response.outcome = "network_error" THEN Raised
    ELSE IF response.outcome = "404" THEN Returned(Absent)
    ELSE IF response.outcome = "500" THEN Raised
    ELSE IF response.outcome = "parse_error" THEN Raised
    ELSE LET text == IF response.article # None THEN response.article ELSE EmptyText
             release_url == IF response.meta THEN response.og_digits ELSE url
         IN Returned([new_release_date |-> extract_date_from_url(release_url),
                      body |-> text])

\* StatementFetcher.fetch and its three siblings: the except clause turns
\* whatever the try block raised into the absent result
fetch_propagate(response, date_str, now) ==
    fetch_try(response, request_url(date_str, now))
fetch(response, date_str, now) ==
    LET out == fetch_try(response, request_url(date_str, now))
    IN IF out.raised THEN Returned(Absent) ELSE out

\* fetch_all_fomc_data on given responses: the four fetches one after the
\* other in a dict display, which an exception of any of them leaves
fetch_all_from(responses, date_str, now) ==
    LET r == [t \in DocTypes |-> fetch(responses[t], date_str, now)]
    IN IF \E t \in DocTypes : r[t].raised
       THEN [raised |-> TRUE, results |-> NoFetch]
       ELSE [raised |-> FALSE, results |-> [t \in DocTypes |-> r[t].result]]

\* ------------------------------------------------------------- store
\* INSERT ... ON CONFLICT (release_date) DO UPDATE SET <text> = EXCLUDED.<text>
execute_upsert_replace(table, release_date, text) ==
    {[release_date |-> release_date, body |-> text]}
execute_upsert_keep(table, release_date, text) ==
    IF \E r \in table : r.release_date = release_date
    THEN table
    ELSE table \cup {[release_date |-> release_date, body |-> text]}
execute_upsert(table, release_date, text) ==
    IF \E r \in table : r.release_date = release_date
    THEN {IF r.release_date = release_date THEN [r EXCEPT !.body = text] ELSE r
          : r \in table}
    ELSE table \cup {[release_date |-> release_date, body |-> text]}

upsert_statement(d, release_date, text) ==
    [d EXCEPT !["statement"] = execute_upsert(@, release_date, text)]
upsert_minutes(d, release_date, text) ==
    [d EXCEPT !["minutes"] = execute_upsert(@, release_date, text)]
upsert_projection_note(d, release_date, text) ==
    [d EXCEPT !["projection_note"] = execute_upsert(@, release_date, text)]
upsert_implementation_note(d, release_date, text) ==
    [d EXCEPT !["implementation_note"] = execute_upsert(@, release_date, text)]

\* SELECT TO_CHAR(release_date) ... ORDER BY release_date DESC LIMIT 1
get_latest_date(table) ==
    IF table = {} THEN None
    ELSE max({r.release_date : r \in table})

\* INSERT INTO analysis.monetary_policies ... ON CONFLICT (statement_date)
\* DO UPDATE SET execution_date, implementation_note_date,
\* projection_note_date, minutes_date, content = EXCLUDED.*
NewRow(data) ==
    [statement_date |-> data.statement_release_date,
     execution_date |-> data.execution_date,
     implementation_note_date |-> data.implementation_note_release_date,
     projection_note_date |-> data.projection_note_release_date,
     minutes_date |-> data.minutes_release_date,
     content |-> data.content]
save_fomc_analysis_insert(mp, data) == mp \cup {NewRow(data)}
save_fomc_analysis_merge(mp, data) ==
    IF \E r \in mp : r.statement_date = data.statement_release_date
    THEN {IF r.statement_date = data.statement_release_date
          THEN [r EXCEPT !.execution_date = data.execution_date,
                         !.content = data.content]
          ELSE r : r \in mp}
    ELSE mp \cup {NewRow(data)}
save_fomc_analysis(mp, data) ==
    IF \E r \in mp : r.statement_date = data.statement_release_date
    THEN {IF r.statement_date = data.statement_release_date
          THEN [r EXCEPT !.execution_date = data.execution_date,
                         !.implementation_note_date = data.implementation_note_release_date,
                         !.projection_note_date = data.projection_note_release_date,
                         !.minutes_date = data.minutes_release_date,
                         !.content = data.content]
          ELSE r : r \in mp}
    ELSE mp \cup {NewRow(data)}

\* LIMIT 6 of get_six_months_fomc_verdict
HistoryLimit == 6
Min(a, b) == IF a < b THEN a ELSE b
\* one row of the SELECT: the columns under the names the query gives them
VerdictDict(r) ==
    [execution_date |-> r.execution_date,
     statement_date |-> r.statement_date,
     implementation_date |-> r.implementation_note_date,
     projection_date |-> r.projection_note_date,
     minutes_date |-> r.minutes_date,
     content |-> r.content]
\* ORDER BY execution_date DESC LIMIT 6: every list the query may return
\* (rows with the same execution_date come in any order)
get_six_months_fomc_verdict(mp) ==
    LET n == Min(HistoryLimit, Cardinality(mp)) IN
    {[i \in 1..n |-> VerdictDict(h[i])] : h \in
       {g \in [1..n -> mp] :
          /\ \A i, j \in 1..n : i < j =>
                /\ g[i] # g[j]
                /\ DateLE(g[j].execution_date, g[i].execution_date)
          /\ \A r \in mp : (\A i \in 1..n : g[i] # r) =>
                \A i \in 1..n : DateLE(r.execution_date, g[i].execution_date)}}

\* ------------------------------------------------------------- run state
EmptyVerdict ==
    [execution_date |-> None, statement_date |-> None,
     implementation_date |-> None, projection_date |-> None,
     minutes_date |-> None, content |-> None]
EmptyDbState ==
    [minutes_date |-> None, statement_date |-> None,
     implementation_date |-> None, projection_date |-> None,
     verdict |-> EmptyVerdict, history |-> << >>]
EmptyAligned ==
    [max_release_date |-> None,
     minutes_release_date |-> None, minutes_content |-> None,
     statement_release_date |-> None, statement |-> None,
     implementation_note_release_date |-> None, implementation_note |-> None,
     projection_note_release_date |-> None, projection_note |-> None,
     history |-> << >>]
Output(status, message, data) ==
    [status |-> status, message |-> message, data |-> data]
EmptyOutput == Output("", "", None)
initial_state(force_date) ==
    [force_date |-> force_date,
     fetch_results |-> NoFetch,
     db_state |-> EmptyDbState,
     aligned_data |-> EmptyAligned,
     should_run |-> FALSE,
     status_message |-> <<"">>,
     analysis_result |-> None,
     final_output |-> Output("started", "", None)]
\* the store at the start of a run, and what the run before it returned when
\* this run repeats it
Snapshot(d, mp, out) == [docs |-> d, monetary_policies |-> mp, returned |-> out]
NoPre == Snapshot([t \in DocTypes |-> {}], {}, EmptyOutput)

\* force_date: absent (auto-detect), or the first day of the calendar
ForceDates == {None, DateOf(1)}
\* the date_str a fetcher may be called with: none, 'YYYY-MM-DD', 'YYYYMMDD'
Hints == ForceDates \cup {Digits8(DateOf(1))}

\* a run in progress: the node it is at, its graph state, its model calls
RunOf(at, st, calls) == [pc |-> at, state |-> st, llm_calls |-> calls]
NoRun == RunOf("none", initial_state(None), 0)

\* no entry point has been called, nobody is registered
NoJob ==
    [entry |-> "none", status |-> "", data |-> FALSE, attempted |-> FALSE,
     sent |-> 0, response |-> 0]
NoSplit ==
    [called |-> FALSE, text |-> << >>, limit |-> 0, chunks |-> << >>,
     raised |-> FALSE]
\* a call of send_analysis before it runs: its arguments, and the calls of
\* _send_message that will fail
SendRequest(chat_ids, title, content, fails) ==
    [called |-> FALSE, chat_ids |-> chat_ids, title |-> title,
     content |-> content, chunks |-> << >>, fails |-> fails, log |-> << >>,
     raised |-> FALSE]
NoSending == SendRequest(<< >>, << >>, << >>, {})
\* the user of a Telegram update, message.from: id (absent: None) and names
UserOf(id, first_name, last_name, username, is_bot) ==
    [id |-> id, first_name |-> first_name, last_name |-> last_name,
     username |-> username, is_bot |-> is_bot]
NoRegistration ==
    [called |-> FALSE, user_data |-> UserOf(None, None, None, None, FALSE),
     fault |-> FALSE, raised |-> FALSE]
InitTelegram ==
    /\ job = NoJob
    /\ users = {}
    /\ split = NoSplit
    /\ sending = NoSending
    /\ registered = NoRegistration

\* the store after create_database_schema, no run in progress
InitEmpty ==
    /\ today = 1
    /\ docs = [t \in DocTypes |-> {}]
    /\ monetary_policies = {}
    /\ pc = "idle"
    /\ state = initial_state(None)
    /\ source = NoFetch
    /\ pre = NoPre
    /\ llm_calls = 0
    /\ sent_history = None
    /\ second = FALSE
    /\ runs = 0
    /\ failed = {}
    /\ connections = 0
    /\ upserted = None
    /\ other = NoRun
    /\ last_target = None

InitStore == InitTelegram /\ InitEmpty

\* the workflow against a database that does not fail.  The module as it
\* stands imports FOMC_SYSTEM_PROMPT only, which leaves the name that
\* node_run_analysis reads unbound; the behaviours with the name bound are
\* those of the module once the import and the use agree.
Init ==
    /\ InitStore
    /\ http = NoHttp
    /\ prompt_bound \in BOOLEAN
    /\ faulty = FALSE
    /\ read_faulty = FALSE

\* ------------------------------------------------------------- actions
\* a day passes between two runs
NextDay ==
    /\ pc = "idle"
    /\ today < MaxDay
    /\ today' = today + 1
    /\ UNCHANGED <<docs, monetary_policies, pc, state, source, pre, llm_calls, sent_history,
                   second, runs, failed, connections, modes, upserted, http,
                   other, last_target, telegram>>

\* FOMCAnalysisWorkflow.run: the initial state, then the entry node
run(force_date, responses) ==
    /\ pc = "idle"
    /\ runs < MaxRuns
    /\ runs' = runs + 1
    /\ state' = initial_state(force_date)
    /\ source' = responses
    /\ pre' = Snapshot(docs, monetary_policies, EmptyOutput)
    /\ llm_calls' = 0
    /\ sent_history' = None
    /\ second' = FALSE
    /\ pc' = "scrape_and_upsert"
    /\ failed' = {}
    /\ UNCHANGED connections
    /\ UNCHANGED <<today, docs, monetary_policies, modes, upserted, http,
                   other, last_target, telegram>>

Run == \E f \in ForceDates : \E s \in fetch_all_fomc_data : run(f, s)

\* run() called again right after a run returned, the source answering
\* exactly as before
RunAgain ==
    /\ pc = "END"
    /\ ~second
    /\ runs < MaxRuns
    /\ runs' = runs + 1
    /\ state' = initial_state(state.force_date)
    /\ pre' = Snapshot(docs, monetary_policies, state.final_output)
    /\ llm_calls' = 0
    /\ sent_history' = None
    /\ second' = TRUE
    /\ pc' = "scrape_and_upsert"
    /\ failed' = {}
    /\ UNCHANGED connections
    /\ UNCHANGED <<today, docs, monetary_policies, source, modes, upserted, http, other,
                   last_target, telegram>>

\* _execute_upsert: True when the statement ran and its transaction
\* committed; when it raised, get_connection rolls back and the except
\* clause answers False
execute_upsert_reraise(ok) == IF ok THEN "True" ELSE "raise"

\* where one write may raise: in psycopg2.connect, in cursor.execute, in
\* conn.commit, or nowhere
Faults == {"none", "connect", "execute", "commit"}
NoFaults == << >>
FaultAt(faults, t) == IF t \in DOMAIN faults THEN faults[t] ELSE "none"

\* "with self.get_connection()" around one statement that turns the table
\* before into written: the table afterwards, the connections left open and
\* whether an exception leaves the block. Without the rollback and the close
\* a statement that ran stays applied on a connection that stays open
get_connection_keep(before, written, fault) ==
    [store |-> IF fault \in {"none", "commit"} THEN written ELSE before,
     open |-> IF fault \in {"execute", "commit"} THEN 1 ELSE 0,
     raised |-> fault # "none"]
get_connection(before, written, fault) ==
    LET opened == fault # "connect"
        committed == fault = "none"
        closed == opened
    IN [store |-> IF committed THEN written ELSE before,
        open |-> IF opened /\ ~closed THEN 1 ELSE 0,
        raised |-> ~committed]
execute_upsert_result(ok) == IF ok THEN "True" ELSE "False"

upsert_document(d, t, release_date, text) ==
    CASE t = "statement" -> upsert_statement(d, release_date, text)
      [] t = "minutes" -> upsert_minutes(d, release_date, text)
      [] t = "projection_note" -> upsert_projection_note(d, release_date, text)
      [] t = "implementation_note" -> upsert_implementation_note(d, release_date, text)

\* the types node_scrape_and_upsert calls an upsert for
attempted(fetched, now) ==
    {t \in DocTypes : /\ fetched[t].new_release_date # None
                      /\ is_valid_date(fetched[t].new_release_date, now)}

\* one "if x_date and is_valid_date(x_date): self.db.upsert_x(...)" block;
\* acc is the store so far and whether an exception is on its way out
scrape_block(acc, t, fetched, now, faults) ==
    IF acc.raised \/ t \notin attempted(fetched, now) THEN acc
    ELSE LET written == upsert_document(acc.docs, t, fetched[t].new_release_date,
                                        fetched[t].body)
             new_conn == get_connection(acc.docs, written, FaultAt(faults, t))
             result == execute_upsert_result(~new_conn.raised)
         IN [docs |-> new_conn.store,
             open |-> acc.open + new_conn.open,
             raised |-> result \notin {"True", "False"}]

\* the four blocks in the order of the source
scrape_blocks(d, fetched, now, faults) ==
    LET a0 == [docs |-> d, open |-> 0, raised |-> FALSE]
        a1 == scrape_block(a0, "statement", fetched, now, faults)
        a2 == scrape_block(a1, "minutes", fetched, now, faults)
        a3 == scrape_block(a2, "projection_note", fetched, now, faults)
    IN scrape_block(a3, "implementation_note", fetched, now, faults)

\* how the database may fail the writes called in one step
WriteFaults(called) == IF faulty THEN [called -> Faults] ELSE {[t \in called |-> "none"]}

node_scrape_and_upsert ==
    /\ pc = "scrape_and_upsert"
    /\ \E faults \in WriteFaults(attempted(source, Today)) :
         LET fetched == source
             out == scrape_blocks(docs, fetched, Today, faults)
         IN /\ docs' = out.docs
            /\ failed' = {t \in DOMAIN faults : faults[t] # "none"}
            /\ connections' = connections + out.open
            /\ IF out.raised
               THEN pc' = "RAISED" /\ UNCHANGED state
               ELSE /\ state' = [state EXCEPT !.fetch_results = fetched]
                    /\ pc' = "pull_db_state"
    /\ UNCHANGED <<today, monetary_policies, source, pre, llm_calls, sent_history, second, runs,
                   modes, upserted, http, other, last_target, telegram>>

\* db_data of node_pull_db_state: the latest date of each table as the store
\* has it when the node runs, the first verdict of the history, the history
pull_db_state_before(d, history) ==
    [minutes_date |-> get_latest_date(pre.docs["minutes"]),
     statement_date |-> get_latest_date(pre.docs["statement"]),
     implementation_date |-> get_latest_date(pre.docs["implementation_note"]),
     projection_date |-> get_latest_date(pre.docs["projection_note"]),
     verdict |-> IF DOMAIN history # {} THEN history[1] ELSE EmptyVerdict,
     history |-> history]
pull_db_state(d, history) ==
    LET latest_verdict == IF DOMAIN history # {} THEN history[1] ELSE EmptyVerdict
    IN [minutes_date |-> get_latest_date(d["minutes"]),
        statement_date |-> get_latest_date(d["statement"]),
        implementation_date |-> get_latest_date(d["implementation_note"]),
        projection_date |-> get_latest_date(d["projection_note"]),
        verdict |-> latest_verdict,
        history |-> history]

\* the five reads of node_pull_db_state.  A read that raises is caught in
\* the method that made it: _get_latest_date answers None, as it does for an
\* empty table, and get_six_months_fomc_verdict answers []
LatestRead ==
    [statement |-> "get_latest_statement_date",
     minutes |-> "get_latest_minutes_date",
     projection_note |-> "get_latest_projection_date",
     implementation_note |-> "get_latest_implementation_date"]
HistoryRead == "get_six_months_fomc_verdict"
Reads == {LatestRead[t] : t \in DocTypes} \cup {HistoryRead}
ReadFaults ==
    IF read_faulty
    THEN {u \in SUBSET Reads : Cardinality(u) <= MaxUnread}
    ELSE {{}}
read_tables(d, unread) ==
    [t \in DocTypes |-> IF LatestRead[t] \in unread THEN {} ELSE d[t]]
read_history(history, unread) ==
    IF HistoryRead \in unread THEN << >> ELSE history

node_pull_db_state ==
    /\ pc = "pull_db_state"
    /\ \E unread \in ReadFaults :
       \E history \in get_six_months_fomc_verdict(monetary_policies) :
         /\ state' = [state EXCEPT !.db_state =
                         pull_db_state(read_tables(docs, unread),
                                       read_history(history, unread))]
         /\ failed' = failed \cup unread
    /\ pc' = "check_logic"
    /\ UNCHANGED <<today, docs, monetary_policies, source, pre, llm_calls, sent_history,
                   second, runs, connections, modes, upserted, http, other, last_target, telegram>>

\* get_content_from_fetch(key, subkey, target_date)
get_content_from_fetch(fetched_results, key, target_date) ==
    IF fetched_results[key].new_release_date = target_date
    THEN fetched_results[key].body
    ELSE None

\* the "Align Data" block of node_check_logic
align_keep_all(db_state, fetched_results, max_date) ==
    [max_release_date |-> max_date,
     minutes_release_date |-> db_state.minutes_date,
     minutes_content |-> get_content_from_fetch(fetched_results, "minutes", max_date),
     statement_release_date |-> db_state.statement_date,
     statement |-> get_content_from_fetch(fetched_results, "statement", max_date),
     implementation_note_release_date |-> db_state.implementation_date,
     implementation_note |->
        get_content_from_fetch(fetched_results, "implementation_note", max_date),
     projection_note_release_date |-> db_state.projection_date,
     projection_note |->
        get_content_from_fetch(fetched_results, "projection_note", max_date),
     history |-> db_state.history]
align(db_state, fetched_results, max_date) ==
    LET d_min == db_state.minutes_date
        d_stmt == db_state.statement_date
        d_impl == db_state.implementation_date
        d_proj == db_state.projection_date
    IN
    [max_release_date |-> max_date,
     minutes_release_date |-> IF d_min = max_date THEN d_min ELSE None,
     minutes_content |->
        IF d_min = max_date
        THEN get_content_from_fetch(fetched_results, "minutes", max_date)
        ELSE None,
     statement_release_date |-> IF d_stmt = max_date THEN d_stmt ELSE None,
     statement |->
        IF d_stmt = max_date
        THEN get_content_from_fetch(fetched_results, "statement", max_date)
        ELSE None,
     implementation_note_release_date |-> IF d_impl = max_date THEN d_impl ELSE None,
     implementation_note |->
        IF d_impl = max_date
        THEN get_content_from_fetch(fetched_results, "implementation_note", max_date)
        ELSE None,
     projection_note_release_date |-> IF d_proj = max_date THEN d_proj ELSE None,
     projection_note |->
        IF d_proj = max_date
        THEN get_content_from_fetch(fetched_results, "projection_note", max_date)
        ELSE None,
     history |-> db_state.history]

\* the "Check Against Last Verdict" block: <<should_run, reason>>
novelty_statement_only(aligned, verdict) ==
    LET stmt_rel == aligned.statement_release_date
    IN IF stmt_rel # None /\ stmt_rel # verdict.statement_date
       THEN <<TRUE, <<"New Statement", stmt_rel>> >>
       ELSE <<FALSE, <<"No new updates">> >>
novelty_any_statement(aligned, verdict) ==
    LET minutes_rel == aligned.minutes_release_date
        stmt_rel == aligned.statement_release_date
    IN IF minutes_rel = None
       THEN IF stmt_rel # None
            THEN <<TRUE, <<"New Statement", stmt_rel>> >>
            ELSE <<FALSE, <<"No new updates">> >>
       ELSE IF minutes_rel # verdict.minutes_date
            THEN <<TRUE, <<"New Minutes", minutes_rel>> >>
            ELSE <<FALSE, <<"No new updates">> >>
novelty_default_run(aligned, verdict) ==
    LET minutes_rel == aligned.minutes_release_date
        stmt_rel == aligned.statement_release_date
    IN IF minutes_rel = None
       THEN IF stmt_rel # verdict.statement_date
            THEN <<TRUE, <<"New Statement", stmt_rel>> >>
            ELSE <<FALSE, <<"No new updates">> >>
       ELSE IF minutes_rel # verdict.minutes_date
            THEN <<TRUE, <<"New Minutes", minutes_rel>> >>
            ELSE <<FALSE, <<"No new updates">> >>
novelty(aligned, verdict) ==
    LET last_stmt == verdict.statement_date
        last_min == verdict.minutes_date
        minutes_rel == aligned.minutes_release_date
        stmt_rel == aligned.statement_release_date
    IN IF minutes_rel = None
       THEN IF stmt_rel # None /\ stmt_rel # last_stmt
            THEN <<TRUE, <<"New Statement", stmt_rel>> >>
            ELSE <<FALSE, <<"No new updates">> >>
       ELSE IF minutes_rel # last_min
            THEN <<TRUE, <<"New Minutes", minutes_rel>> >>
            ELSE <<FALSE, <<"No new updates">> >>

\* valid_dates of node_check_logic
valid_dates(db_state) ==
    {d \in {db_state.minutes_date, db_state.statement_date,
            db_state.implementation_date, db_state.projection_date} : d # None}

\* the "if not valid_dates" early return of node_check_logic
no_data_run(st) ==
    [st EXCEPT !.should_run = TRUE,
               !.status_message = <<"No data in DB">>,
               !.final_output = EmptyOutput]
no_data(st) ==
    [st EXCEPT !.should_run = FALSE,
               !.status_message = <<"No data in DB">>,
               !.final_output = Output("skipped", "No data found", None)]

\* decision_should_analyze, and where add_conditional_edges sends its answer
decision_always_continue(st) == "continue"
decision_should_analyze(st) == IF st.should_run THEN "continue" ELSE "stop"
conditional_edges_retry(route) ==
    IF route = "continue" THEN "run_analysis" ELSE "scrape_and_upsert"
conditional_edges(route) ==
    IF route = "continue" THEN "run_analysis" ELSE "END"

node_check_logic ==
    /\ pc = "check_logic"
    /\ LET db_state == state.db_state
           fetched_results == state.fetch_results
       IN IF valid_dates(db_state) = {}
          THEN state' = no_data(state)
          ELSE LET max_date == max(valid_dates(db_state))
                   aligned == align(db_state, fetched_results, max_date)
                   decision == novelty(aligned, db_state.verdict)
                   final_out == IF ~decision[1]
                                THEN Output("skipped", "Database up to date", None)
                                ELSE EmptyOutput
               IN state' = [state EXCEPT !.should_run = decision[1],
                                         !.status_message = decision[2],
                                         !.aligned_data = aligned,
                                         !.final_output = final_out]
    /\ pc' = conditional_edges(decision_should_analyze(state'))
    /\ last_target' = IF valid_dates(state.db_state) = {} THEN last_target
                      ELSE max(valid_dates(state.db_state))
    /\ UNCHANGED <<today, docs, monetary_policies, source, pre, llm_calls, sent_history,
                   second, runs, failed, connections, modes, upserted, http, other, telegram>>

\* the except clause of node_run_analysis: the message is the exception's text
analysis_failed(st) ==
    [st EXCEPT !.analysis_result = None,
               !.final_output = Output("error", "str(e)", None)]

\* "Filter History" of node_run_analysis: each item is copied and the copy
\* loses its execution_date; clean is the list that goes into the message,
\* raw is the list of the state afterwards.  Deleting from the item itself
\* would take the field from the list the state holds
clean_item(item) == [k \in DOMAIN item \ {"execution_date"} |-> item[k]]
filter_history_in_place(raw_history) ==
    LET clean_history == [i \in DOMAIN raw_history |-> clean_item(raw_history[i])]
    IN [clean |-> clean_history, raw |-> clean_history]
filter_history(raw_history) ==
    LET clean_history == [i \in DOMAIN raw_history |-> clean_item(raw_history[i])]
    IN [clean |-> clean_history, raw |-> raw_history]

\* the state after the filter: the list is the one object behind
\* aligned_data["history"] and db_state["history"], its first item the one
\* behind db_state["verdict"]
after_filter(st) ==
    LET raw == filter_history(st.aligned_data.history).raw IN
    [st EXCEPT !.aligned_data.history = raw]

\* node_run_analysis.  Building the system text reads the global name
\* FOMC_ANALYSIS_PROMPT before the try block is entered: when the name is
\* not bound the NameError leaves the node and run().  Inside the try the
\* model answers with a result the parser accepts, or the call, the
\* extraction or the parse raises and the except clause reports it.
node_run_analysis ==
    /\ pc = "run_analysis"
    /\ IF ~prompt_bound
       THEN /\ pc' = "RAISED"
            /\ UNCHANGED <<state, llm_calls, sent_history>>
       ELSE /\ llm_calls' = llm_calls + 1
            /\ sent_history' = filter_history(state.aligned_data.history).clean
            /\ \/ \E parsed_result \in Contents :
                    state' = [after_filter(state) EXCEPT
                                 !.analysis_result = parsed_result]
               \/ state' = analysis_failed(after_filter(state))
            /\ pc' = "save_results"
    /\ UNCHANGED <<today, docs, monetary_policies, source, pre, second, runs,
                   failed, connections, modes, upserted, http, other, last_target, telegram>>

\* row_data of node_save_results
row_data_from_store(st, now) ==
    [execution_date |-> now,
     statement_release_date |-> st.db_state.statement_date,
     implementation_note_release_date |-> st.db_state.implementation_date,
     projection_note_release_date |-> st.db_state.projection_date,
     minutes_release_date |-> st.db_state.minutes_date,
     content |-> st.analysis_result]
row_data(st, now) ==
    [execution_date |-> now,
     statement_release_date |-> st.aligned_data.statement_release_date,
     implementation_note_release_date |->
        st.aligned_data.implementation_note_release_date,
     projection_note_release_date |-> st.aligned_data.projection_note_release_date,
     minutes_release_date |-> st.aligned_data.minutes_release_date,
     content |-> st.analysis_result]

\* node_save_results as a function of the run state, the verdict table, the
\* day and whether the database lets the write through: the final output,
\* the table, whether save_fomc_analysis was called, whether it raised
save_results_unguarded(st, mp, now, fault) ==
    LET data == row_data(st, now) IN
    IF data.statement_release_date # None
    THEN LET new_conn == get_connection(mp, save_fomc_analysis(mp, data), fault) IN
         [final_output |-> Output("success", "Analysis saved", st.analysis_result),
          monetary_policies |-> new_conn.store, open |-> new_conn.open,
          called |-> TRUE, raised |-> FALSE]
    ELSE [final_output |-> Output("error", "Missing statement date", None),
          monetary_policies |-> mp, open |-> 0, called |-> FALSE, raised |-> FALSE]
save_results(st, mp, now, fault) ==
    LET result == st.analysis_result
        data == row_data(st, now)
    IN IF result = None
       THEN [final_output |-> st.final_output, monetary_policies |-> mp,
             open |-> 0, called |-> FALSE, raised |-> FALSE]
       ELSE IF data.statement_release_date # None
       THEN LET new_conn == get_connection(mp, save_fomc_analysis(mp, data), fault)
                success == execute_upsert_result(~new_conn.raised)
            IN [final_output |-> Output("success", "Analysis saved", result),
                monetary_policies |-> new_conn.store,
                open |-> new_conn.open,
                called |-> TRUE,
                raised |-> success \notin {"True", "False"}]
       ELSE [final_output |-> Output("error", "Missing statement date", None),
             monetary_policies |-> mp, open |-> 0, called |-> FALSE, raised |-> FALSE]

node_save_results ==
    /\ pc = "save_results"
    /\ \E fault \in Faults :
         LET out == save_results(state, monetary_policies, Today, fault) IN
         /\ fault = "none" \/ (faulty /\ out.called)
         /\ monetary_policies' = out.monetary_policies
         /\ failed' = IF fault = "none" THEN failed ELSE failed \cup {"verdict"}
         /\ connections' = connections + out.open
         /\ IF out.raised
            THEN pc' = "RAISED" /\ UNCHANGED state
            ELSE /\ state' = [state EXCEPT !.final_output = out.final_output]
                 /\ pc' = "END"
    /\ UNCHANGED <<today, docs, source, pre, llm_calls, sent_history, second, runs,
                   modes, upserted, http, other, last_target, telegram>>

\* run() hands final_state["final_output"] to its caller, or the exception
\* that left a node
run_returns ==
    /\ pc \in {"END", "RAISED"}
    /\ pc' = "idle"
    /\ state' = initial_state(None)
    /\ source' = NoFetch
    /\ pre' = NoPre
    /\ llm_calls' = 0
    /\ sent_history' = None
    /\ second' = FALSE
    /\ failed' = {}
    /\ UNCHANGED connections
    /\ UNCHANGED <<today, docs, monetary_policies, runs, modes, upserted, http,
                   other, last_target>>

Return == run_returns /\ UNCHANGED telegram

Next ==
    \/ NextDay
    \/ Run
    \/ RunAgain
    \/ node_scrape_and_upsert
    \/ node_pull_db_state
    \/ node_check_logic
    \/ node_run_analysis
    \/ node_save_results
    \/ Return

Spec == Init /\ [][Next]_vars

\* app.invoke runs the graph node after node until no node is left to run,
\* and run() then returns: a run in progress takes its next step
Step ==
    \/ node_scrape_and_upsert
    \/ node_pull_db_state
    \/ node_check_logic
    \/ node_run_analysis
    \/ node_save_results
    \/ Return

SpecLive == Init /\ [][Next]_vars /\ WF_vars(Step)

\* ------------------------------------------------------------- the store alone
\* FOMCDatabase called directly, one upsert after another: any type, any
\* calendar date of the model, the empty text or a body
UpsertTexts == {EmptyText} \cup Texts
StoredBody(table, release_date) ==
    IF \E r \in table : r.release_date = release_date
    THEN (CHOOSE r \in table : r.release_date = release_date).body
    ELSE None

Upsert ==
    /\ pc = "idle"
    /\ \E t \in DocTypes : \E d \in 1..MaxDay : \E text \in UpsertTexts :
          /\ docs' = upsert_document(docs, t, DateOf(d), text)
          /\ upserted' = [type |-> t, release_date |-> DateOf(d), body |-> text,
                          old |-> StoredBody(docs[t], DateOf(d))]
    /\ UNCHANGED <<today, monetary_policies, pc, state, source, pre, llm_calls, sent_history,
                   second, runs, failed, connections, modes, http, other, last_target, telegram>>

InitUpsert ==
    /\ InitStore
    /\ http = NoHttp
    /\ prompt_bound = FALSE
    /\ faulty = FALSE
    /\ read_faulty = FALSE

SpecUpsert == InitUpsert /\ [][Upsert]_vars

\* ------------------------------------------------------------- the fetchers alone
\* fetch_all_fomc_data called once on any four answers of the source
Fetch ==
    /\ pc = "idle"
    /\ \E date_str \in Hints :
          LET out == fetch_all_from(http, date_str, Today) IN
          /\ state' = initial_state(date_str)
          /\ source' = out.results
          /\ pc' = IF out.raised THEN "RAISED" ELSE "fetched"
    /\ UNCHANGED <<today, docs, monetary_policies, pre, llm_calls, sent_history, second, runs,
                   failed, connections, modes, upserted, http, other, last_target, telegram>>

InitFetch ==
    /\ InitStore
    /\ http \in [DocTypes -> HttpResponses]
    /\ prompt_bound = FALSE
    /\ faulty = FALSE
    /\ read_faulty = FALSE

SpecFetch == InitFetch /\ [][Fetch]_vars

\* ------------------------------------------------------------- two runs at once
\* run() called a second time (a second process on the same database) while
\* a run is in progress, the source answering both alike.  Each statement
\* sent to the database is a step of its own; the steps of the two runs
\* interleave in any order.
BlockOrder == <<"statement", "minutes", "projection_note", "implementation_note">>
BlockPc == <<"scrape_and_upsert", "upsert_minutes", "upsert_projection_note",
             "upsert_implementation_note">>
Running == {"scrape_and_upsert", "upsert_minutes", "upsert_projection_note",
            "upsert_implementation_note", "pull_db_state", "check_logic",
            "run_analysis", "save_results"}

\* the i-th upsert block of node_scrape_and_upsert, the node returning after
\* the last one
upsert_block(i) ==
    /\ pc = BlockPc[i]
    /\ docs' = scrape_block([docs |-> docs, open |-> 0, raised |-> FALSE],
                            BlockOrder[i], source, Today, NoFaults).docs
    /\ IF i = Len(BlockOrder)
       THEN /\ state' = [state EXCEPT !.fetch_results = source]
            /\ pc' = "pull_db_state"
       ELSE /\ pc' = BlockPc[i + 1]
            /\ UNCHANGED state
    /\ UNCHANGED <<today, monetary_policies, source, pre, llm_calls, sent_history, second, runs,
                   failed, connections, modes, upserted, http, other, last_target, telegram>>

UpsertBlock == \E i \in 1..Len(BlockOrder) : upsert_block(i)

\* the second call of run()
RunOther ==
    /\ pc \in Running \cup {"END", "RAISED"}
    /\ other = NoRun
    /\ runs < MaxRuns
    /\ runs' = runs + 1
    /\ other' = RunOf(pc, state, llm_calls)
    /\ state' = initial_state(state.force_date)
    /\ llm_calls' = 0
    /\ UNCHANGED sent_history
    /\ pc' = "scrape_and_upsert"
    /\ UNCHANGED <<today, docs, monetary_policies, source, pre, second, failed,
                   connections, modes, upserted, http, last_target, telegram>>

\* the scheduler turns to the other run
Switch ==
    /\ other.pc \in Running
    /\ other' = RunOf(pc, state, llm_calls)
    /\ pc' = other.pc
    /\ state' = other.state
    /\ llm_calls' = other.llm_calls
    /\ UNCHANGED sent_history
    /\ UNCHANGED <<today, docs, monetary_policies, source, pre, second, runs,
                   failed, connections, modes, upserted, http, last_target, telegram>>

NextOverlap ==
    \/ NextDay
    \/ Run
    \/ RunOther
    \/ Switch
    \/ UpsertBlock
    \/ node_pull_db_state
    \/ node_check_logic
    \/ node_run_analysis
    \/ node_save_results

SpecOverlap == Init /\ [][NextOverlap]_vars

\* ------------------------------------------------------------- a store with a verdict
\* The store one run leaves on 2025-01-02 when the source answered the
\* statement of 2025-01-01 and the analysis returned its first result: a
\* state Spec reaches (NextDay, Run, the five nodes, Return), from which two
\* more calls of run() are followed.
SeedDocs ==
    [t \in DocTypes |->
        IF t = "statement"
        THEN {[release_date |-> DateOf(1), body |-> <<1>>]}
        ELSE {}]
SeedVerdicts ==
    {[statement_date |-> DateOf(1), execution_date |-> DateOf(2),
      implementation_note_date |-> None, projection_note_date |-> None,
      minutes_date |-> None, content |-> <<1>>]}

InitSeeded ==
    /\ InitTelegram
    /\ today = 2
    /\ docs = SeedDocs
    /\ monetary_policies = SeedVerdicts
    /\ pc = "idle"
    /\ state = initial_state(None)
    /\ source = NoFetch
    /\ pre = NoPre
    /\ llm_calls = 0
    /\ sent_history = None
    /\ second = FALSE
    /\ runs = 0
    /\ failed = {}
    /\ connections = 0
    /\ upserted = None
    /\ other = NoRun
    /\ last_target = None
    /\ http = NoHttp
    /\ prompt_bound = TRUE
    /\ faulty = FALSE

InitHistory == InitSeeded /\ read_faulty = FALSE

NextHistory ==
    \/ Run
    \/ RunAgain
    \/ node_scrape_and_upsert
    \/ node_pull_db_state
    \/ node_check_logic
    \/ node_run_analysis
    \/ node_save_results
    \/ Return

SpecHistory == InitHistory /\ [][NextHistory]_vars

\* the workflow against a database that may fail any write it is asked for
InitFaults ==
    /\ InitStore
    /\ http = NoHttp
    /\ prompt_bound \in BOOLEAN
    /\ faulty = TRUE
    /\ read_faulty = FALSE

SpecFaults == InitFaults /\ [][Next]_vars

\* the workflow on the store one run leaves, against a database that may
\* fail a read of node_pull_db_state
InitReads == InitSeeded /\ read_faulty = TRUE

SpecReads == InitReads /\ [][NextHistory]_vars

\* ------------------------------------------------------------- entry points
\* main() of main.py and handler.do_GET of api/webhook.py, from their call of
\* workflow.run on.  What the classes they use define:
SettingsFields ==
    {"ANTHROPIC_API_KEY", "OPENAI_API_KEY", "LANGSMITH_API_KEY", "POSTGRES_HOST",
     "POSTGRES_PORT", "POSTGRES_DB", "POSTGRES_USER", "POSTGRES_PASSWORD",
     "db_connection_params"}
TelegramSenderInit == {}
TelegramSenderMethods == {"send_analysis", "_split_message", "_send_message"}
UserHandlerMethods == {"register_user", "get_all_users"}
TelegramFormatterNames == {"format_analysis_for_telegram"}

\* a row of users.users
UserRow(chat_id, first_name, last_name, username, is_bot, register_date) ==
    [chat_id |-> chat_id, first_name |-> first_name, last_name |-> last_name,
     username |-> username, is_bot |-> is_bot, register_date |-> register_date]
\* SELECT chat_id FROM users.users WHERE is_bot = False
get_all_users(table) == {r.chat_id : r \in {u \in table : ~u.is_bot}}

\* what run() gave its caller: the final output, or the exception
run_result ==
    [raised |-> pc = "RAISED",
     status |-> state.final_output.status,
     data |-> state.final_output.data # None]

Job(entry, result, tried, sent, response) ==
    [entry |-> entry, status |-> IF result.raised THEN "raised" ELSE result.status,
     data |-> ~result.raised /\ result.data, attempted |-> tried,
     sent |-> sent, response |-> response]

\* main(), lines 25-58: the exit code of the process.  In the success branch
\* TelegramSender() reads settings.TELEGRAM_BOT_TOKEN and the broadcast is
\* sender.send_message; whichever does not resolve raises into the except
\* clause, which exits with 1
main_after_run(result, chat_ids) ==
    IF result.raised THEN Job("main", result, FALSE, 0, 1)
    ELSE IF result.status = "success" /\ result.data
    THEN IF chat_ids # {}
         THEN IF \/ "TELEGRAM_BOT_TOKEN" \notin SettingsFields
                 \/ "send_message" \notin TelegramSenderMethods
              THEN Job("main", result, TRUE, 0, 1)
              ELSE Job("main", result, TRUE, Cardinality(chat_ids), 0)
         ELSE Job("main", result, FALSE, 0, 0)
    ELSE Job("main", result, FALSE, 0, 0)

\* do_GET, lines 25-79: the status of the HTTP response.  In the success
\* branch TelegramFormatter(), TelegramSender(token=...),
\* get_subscribed_users and send_message are used; whichever does not resolve
\* raises into the except clause, which answers 500
do_GET_after_run(result, chat_ids) ==
    IF result.raised THEN Job("do_GET", result, FALSE, 0, 500)
    ELSE IF result.status = "success"
    THEN IF \/ "TelegramFormatter" \notin TelegramFormatterNames
            \/ "token" \notin TelegramSenderInit
            \/ "get_subscribed_users" \notin UserHandlerMethods
            \/ "send_message" \notin TelegramSenderMethods
         THEN Job("do_GET", result, TRUE, 0, 500)
         ELSE Job("do_GET", result, TRUE, Cardinality(chat_ids), 200)
    ELSE IF result.status = "skipped" THEN Job("do_GET", result, FALSE, 0, 200)
    ELSE Job("do_GET", result, FALSE, 0, 500)

main ==
    /\ run_returns
    /\ job' = main_after_run(run_result, get_all_users(users))
    /\ UNCHANGED <<users, split, sending, registered>>

do_GET ==
    /\ run_returns
    /\ job' = do_GET_after_run(run_result, get_all_users(users))
    /\ UNCHANGED <<users, split, sending, registered>>

\* one subscriber, registered on the first day
Subscriber == UserRow(<<1>>, <<1>>, <<1>>, <<1>>, FALSE, DateOf(1))

InitJob ==
    /\ InitEmpty
    /\ http = NoHttp
    /\ prompt_bound \in BOOLEAN
    /\ faulty = FALSE
    /\ read_faulty = FALSE
    /\ job = NoJob
    /\ users \in {{}, {Subscriber}}
    /\ split = NoSplit
    /\ sending = NoSending
    /\ registered = NoRegistration

NextJob ==
    \/ NextDay
    \/ Run
    \/ node_scrape_and_upsert
    \/ node_pull_db_state
    \/ node_check_logic
    \/ node_run_analysis
    \/ node_save_results
    \/ main
    \/ do_GET

SpecJob == InitJob /\ [][NextJob]_vars

\* ------------------------------------------------------------ TelegramSender
\* the characters of a message, and the messages up to MaxText characters
Chars == {1, 2}
Messages == UNION {[1..n -> Chars] : n \in 0..MaxText}
\* the limit _split_message is called with
Limits == (0 - 1)..MaxLimit

\* range(0, stop, step) for stop >= 0 and step # 0: the start of each chunk
range_from_zero(stop, step) ==
    IF step < 0 THEN << >>
    ELSE [k \in 1..((stop + step - 1) \div step) |-> (k - 1) * step]
\* text[i:j] for 0 <= i <= j
slice(text, i, j) == SubSeq(text, i + 1, Min(j, Len(text)))

\* a split that loses the last, shorter chunk
split_message_whole_chunks(text, limit) ==
    IF Len(text) <= limit THEN [chunks |-> <<text>>, raised |-> FALSE]
    ELSE IF limit = 0 THEN [chunks |-> << >>, raised |-> TRUE]
    ELSE [chunks |-> [k \in 1..(IF limit < 0 THEN 0 ELSE Len(text) \div limit) |->
                         slice(text, (k - 1) * limit, k * limit)],
          raised |-> FALSE]

\* _split_message(text, limit): the list it returns, or the ValueError of
\* range() with a step of zero
_split_message(text, limit) ==
    IF Len(text) <= limit THEN [chunks |-> <<text>>, raised |-> FALSE]
    ELSE IF limit = 0 THEN [chunks |-> << >>, raised |-> TRUE]
    ELSE LET starts == range_from_zero(Len(text), limit)
         IN  [chunks |-> [k \in 1..Len(starts) |->
                             slice(text, starts[k], starts[k] + limit)],
              raised |-> FALSE]

\* the chunks of a list, joined in order
RECURSIVE Concat(_)
Concat(chunks) ==
    IF chunks = << >> THEN << >> ELSE Head(chunks) \o Concat(Tail(chunks))

\* a call of _split_message
SplitCall ==
    /\ \E text \in Messages : \E limit \in Limits :
          LET r == _split_message(text, limit)
          IN  split' = [called |-> TRUE, text |-> text, limit |-> limit,
                        chunks |-> r.chunks, raised |-> r.raised]
    /\ UNCHANGED <<today, docs, monetary_policies, pc, state, source, pre,
                   llm_calls, sent_history, second, runs, failed, connections,
                   modes, upserted, http, other, last_target, job, users,
                   sending, registered>>

\* nothing stored, no run in progress, no fault
InitQuiet ==
    /\ InitEmpty
    /\ http = NoHttp
    /\ prompt_bound = TRUE
    /\ faulty = FALSE
    /\ read_faulty = FALSE

InitSplit == InitQuiet /\ InitTelegram
NextSplit == SplitCall
SpecSplit == InitSplit /\ [][NextSplit]_vars

\* the markup send_analysis adds to the text
Star == 3
Newline == 4
Underscore == 5
ChatIds == {1, 2}
ChatLists == UNION {[1..n -> ChatIds] : n \in 0..MaxChats}
Titles == {<< >>, <<1>>}
\* f"*{title}*\n\n{content}"
formatted_message(title, content) ==
    <<Star>> \o title \o <<Star, Newline, Newline>> \o content
\* the chunk as posted: f"{chunk}\n\n_(Part {i+1}/{len(chunks)})_" when the
\* message has several chunks (part is i+1)
final_chunk(chunk, part, parts) ==
    IF parts > 1
    THEN chunk \o <<Newline, Newline, Underscore, part, parts, Underscore>>
    ELSE chunk
\* the most chunks a message of the model has
MaxParts == (Len(formatted_message(<<1>>, [k \in 1..MaxText |-> 1])) + DefaultLimit - 1)
                \div DefaultLimit
\* the calls of _send_message that raise: (position of the chat, part)
Calls == (1..MaxChats) \X (1..MaxParts)
SendFaults == {f \in SUBSET Calls : Cardinality(f) <= MaxFails}

\* _send_message(chat_id, text) as the at-th chat's part: the request posted,
\* and whether raise_for_status (or the request) raised
_send_message(at, chat_id, part, text, fails) ==
    [chat |-> at, chat_id |-> chat_id, part |-> part, text |-> text,
     ok |-> <<at, part>> \notin fails]

\* the loop over the chunks, lines 24-30, from part i on: the requests posted
\* up to and including the first that raises
RECURSIVE send_chunks(_, _, _, _, _)
send_chunks(at, chat_id, chunks, i, fails) ==
    IF i > Len(chunks) THEN << >>
    ELSE LET posted == _send_message(at, chat_id, i,
                                     final_chunk(chunks[i], i, Len(chunks)), fails)
         IN  IF posted.ok
             THEN <<posted>> \o send_chunks(at, chat_id, chunks, i + 1, fails)
             ELSE <<posted>>

\* a loop over the chats without the try: the first failure ends the call
RECURSIVE send_chats_no_try(_, _, _, _)
send_chats_no_try(chat_ids, chunks, at, fails) ==
    IF at > Len(chat_ids) THEN [log |-> << >>, raised |-> FALSE]
    ELSE LET mine == send_chunks(at, chat_ids[at], chunks, 1, fails)
         IN  IF mine # << >> /\ ~mine[Len(mine)].ok
             THEN [log |-> mine, raised |-> TRUE]
             ELSE LET rest == send_chats_no_try(chat_ids, chunks, at + 1, fails)
                  IN  [log |-> mine \o rest.log, raised |-> rest.raised]

\* the loop over the chats, lines 22-34, from the at-th chat on: the except
\* clause logs the failure and the loop goes on with the next chat
RECURSIVE send_chats(_, _, _, _)
send_chats(chat_ids, chunks, at, fails) ==
    IF at > Len(chat_ids) THEN [log |-> << >>, raised |-> FALSE]
    ELSE LET mine == send_chunks(at, chat_ids[at], chunks, 1, fails)
             rest == send_chats(chat_ids, chunks, at + 1, fails)
         IN  [log |-> mine \o rest.log, raised |-> rest.raised]

\* send_analysis(chat_ids, title, content) under the failures fails
send_analysis_of(chat_ids, title, content, fails) ==
    LET r == _split_message(formatted_message(title, content), DefaultLimit)
        sent == send_chats(chat_ids, r.chunks, 1, fails)
        request == SendRequest(chat_ids, title, content, fails)
    IN  IF r.raised
        THEN [request EXCEPT !.called = TRUE, !.raised = TRUE]
        ELSE [request EXCEPT !.called = TRUE, !.chunks = r.chunks,
                             !.log = sent.log, !.raised = sent.raised]

\* the calls of send_analysis
SendRequests ==
    {SendRequest(chat_ids, title, content, fails) :
        chat_ids \in ChatLists, title \in Titles, content \in Messages,
        fails \in SendFaults}

send_analysis ==
    /\ ~sending.called
    /\ sending' = send_analysis_of(sending.chat_ids, sending.title,
                                   sending.content, sending.fails)
    /\ UNCHANGED <<today, docs, monetary_policies, pc, state, source, pre,
                   llm_calls, sent_history, second, runs, failed, connections,
                   modes, upserted, http, other, last_target, job, users,
                   split, registered>>

InitSend ==
    /\ InitQuiet
    /\ job = NoJob
    /\ users = {}
    /\ split = NoSplit
    /\ sending \in SendRequests
    /\ registered = NoRegistration
NextSend == send_analysis
SpecSend == InitSend /\ [][NextSend]_vars

\* --------------------------------------------------------------- UserHandler
\* the users that register: id 1 or 2 or none, three sets of names (a key
\* the update lacks reads None), is_bot (absent reads False)
UserNames == {<<<<1>>, <<1>>, <<1>>>>, <<<<2>>, <<2>>, <<2>>>>, <<<<1>>, None, None>>}
UserData ==
    {UserOf(id, n[1], n[2], n[3], is_bot) :
        id \in {None, <<1>>, <<2>>}, n \in UserNames, is_bot \in BOOLEAN}

\* an upsert that replaces the whole row on conflict
register_user_replace(table, user_data, now, fault) ==
    IF fault \/ user_data.id = None THEN [table |-> table, raised |-> FALSE]
    ELSE [table |-> {u \in table : u.chat_id # user_data.id}
                      \cup {UserRow(user_data.id, user_data.first_name,
                                    user_data.last_name, user_data.username,
                                    user_data.is_bot, DateOf(now))},
          raised |-> FALSE]

\* register_user(user_data) on the day now: INSERT ... VALUES (..., CURRENT_DATE)
\* ON CONFLICT (chat_id) DO UPDATE SET first_name, last_name, username.  Under
\* fault the connection or the statement raises; a user without 'id' raises
\* KeyError; the except clause logs either and the table is as it was
register_user(table, user_data, now, fault) ==
    IF fault \/ user_data.id = None THEN [table |-> table, raised |-> FALSE]
    ELSE LET conflict == {u \in table : u.chat_id = user_data.id}
         IN  IF conflict = {}
             THEN [table |-> table
                      \cup {UserRow(user_data.id, user_data.first_name,
                                    user_data.last_name, user_data.username,
                                    user_data.is_bot, DateOf(now))},
                   raised |-> FALSE]
             ELSE [table |-> (table \ conflict)
                      \cup {[u EXCEPT !.first_name = user_data.first_name,
                                      !.last_name = user_data.last_name,
                                      !.username = user_data.username] :
                               u \in conflict},
                   raised |-> FALSE]

\* a call of register_user
Register ==
    /\ \E user_data \in UserData : \E fault \in BOOLEAN :
          LET r == register_user(users, user_data, today, fault)
          IN  /\ users' = r.table
              /\ registered' = [called |-> TRUE, user_data |-> user_data,
                                fault |-> fault, raised |-> r.raised]
    /\ UNCHANGED <<today, docs, monetary_policies, pc, state, source, pre,
                   llm_calls, sent_history, second, runs, failed, connections,
                   modes, upserted, http, other, last_target, job, split,
                   sending>>

InitUsers == InitQuiet /\ InitTelegram
NextUsers == NextDay \/ Register
SpecUsers == InitUsers /\ [][NextUsers]_vars

\* ============================================================= properties
\* the run has been through node_check_logic
Checked == pc \in {"run_analysis", "save_results", "END"}
\* the run has been through node_scrape_and_upsert
Scraped == pc \in {"pull_db_state", "check_logic", "run_analysis", "save_results", "END"}
SlotDate(a, t) ==
    CASE t = "statement" -> a.statement_release_date
      [] t = "minutes" -> a.minutes_release_date
      [] t = "projection_note" -> a.projection_note_release_date
      [] t = "implementation_note" -> a.implementation_note_release_date
SlotBody(a, t) ==
    CASE t = "statement" -> a.statement
      [] t = "minutes" -> a.minutes_content
      [] t = "projection_note" -> a.projection_note
      [] t = "implementation_note" -> a.implementation_note
\* the latest release dates in the store, absent ones left out
StoredLatest == {get_latest_date(docs[t]) : t \in DocTypes} \ {None}
AnalysisFailed(out) == out.status = "error" /\ out.message = "str(e)"

\* C1: a run repeated at once against the same source responses (the first
\* run's analysis, if it was invoked, having returned a result) leaves the
\* four document tables and the verdict table as the first run left them,
\* and its novelty decision is skip.
C1_Idempotent ==
    (pc = "END" /\ second /\ ~AnalysisFailed(pre.returned)) =>
        /\ docs = pre.docs
        /\ monetary_policies = pre.monetary_policies
        /\ ~state.should_run

\* C2: after a successful analysis the verdict is in the table under
\* anchor_date = the aligned statement date if the statement slot is
\* present, else the aligned minutes date.
C2_AnchorDate ==
    (pc = "END" /\ state.analysis_result # None) =>
        LET a == state.aligned_data
            anchor_date == IF a.statement_release_date # None
                           THEN a.statement_release_date
                           ELSE a.minutes_release_date
        IN \E r \in monetary_policies :
              /\ r.statement_date = anchor_date
              /\ r.minutes_date = a.minutes_release_date
              /\ r.content = state.analysis_result

\* C3: the verdict table holds at most one row per anchor date, and the row
\* under the anchor of a run that committed is exactly the new row: its
\* execution date, its three other release dates and its content are the
\* committing run's, whatever the row held before; the other rows are as
\* they were.
C3_VerdictUniqueOverwrite ==
    /\ \A r1, r2 \in monetary_policies :
          r1.statement_date = r2.statement_date => r1 = r2
    /\ (pc = "END" /\ state.final_output.status = "success") =>
          LET a == state.aligned_data
              new == [statement_date |-> a.statement_release_date,
                      execution_date |-> Today,
                      implementation_note_date |-> a.implementation_note_release_date,
                      projection_note_date |-> a.projection_note_release_date,
                      minutes_date |-> a.minutes_release_date,
                      content |-> state.analysis_result]
          IN monetary_policies =
               {r \in pre.monetary_policies : r.statement_date # new.statement_date}
                 \cup {new}
\* a commit over a row whose execution date, minutes date and content all differ
C3_Witness ==
    /\ pc = "END"
    /\ state.final_output.status = "success"
    /\ \E old \in pre.monetary_policies :
          /\ old.statement_date = state.aligned_data.statement_release_date
          /\ old.minutes_date # state.aligned_data.minutes_release_date
          /\ old.execution_date # Today
          /\ old.content # state.analysis_result

\* C4: when the aligned minutes slot is present the decision is run exactly
\* when the aligned minutes date differs from the last verdict's minutes
\* date, whatever the statement slot holds.
C4_MinutesPrecedence ==
    (Checked /\ state.aligned_data.minutes_release_date # None) =>
        (state.should_run <=>
           state.aligned_data.minutes_release_date # state.db_state.verdict.minutes_date)
\* minutes and statement both present, minutes as in the last verdict: skip
C4_Witness ==
    /\ Checked
    /\ state.aligned_data.minutes_release_date # None
    /\ state.aligned_data.statement_release_date # None
    /\ state.aligned_data.minutes_release_date = state.db_state.verdict.minutes_date
    /\ ~state.should_run

\* C5: when the aligned cycle has no minutes slot the decision is run exactly
\* when the statement slot is present and its date differs from the last
\* verdict's statement date, and a run by this rule gives the statement
\* date as its reason.
C5_StatementFallback ==
    (Checked /\ state.aligned_data.minutes_release_date = None) =>
        /\ state.should_run <=>
             /\ state.aligned_data.statement_release_date # None
             /\ state.aligned_data.statement_release_date
                  # state.db_state.verdict.statement_date
        /\ state.should_run =>
             state.status_message =
               <<"New Statement", state.aligned_data.statement_release_date>>
\* both directions happen: a new statement runs, an already analysed one skips
C5_Witness ==
    /\ Checked
    /\ state.aligned_data.minutes_release_date = None
    /\ state.aligned_data.statement_release_date # None
    /\ state.should_run
    /\ state.status_message = <<"New Statement", state.aligned_data.statement_release_date>>
    /\ state.db_state.verdict.statement_date # None

\* C6: when neither the minutes slot nor the statement slot is present the
\* decision is skip; and whenever the decision is skip the run ends there
\* with status skipped and the analysis is not invoked.
C6_NeitherSkips ==
    Checked =>
        /\ (/\ state.aligned_data.minutes_release_date = None
            /\ state.aligned_data.statement_release_date = None) => ~state.should_run
        /\ ~state.should_run =>
             /\ pc = "END"
             /\ llm_calls = 0
             /\ state.final_output.status = "skipped"
\* the target date comes from a note alone while a verdict is on record
C6_Witness ==
    /\ Checked
    /\ state.aligned_data.max_release_date # None
    /\ state.aligned_data.minutes_release_date = None
    /\ state.aligned_data.statement_release_date = None
    /\ state.db_state.verdict.statement_date # None
    /\ pc = "END"

\* C7: target_date is the greatest of the latest stored release dates of the
\* four types, and a type's slot is present exactly when its latest stored
\* date is target_date, and then it carries target_date.
C7_AlignmentKnockout ==
    (Checked /\ StoredLatest # {}) =>
        LET a == state.aligned_data IN
        /\ a.max_release_date \in StoredLatest
        /\ \A d \in StoredLatest : DateLE(d, a.max_release_date)
        /\ \A t \in DocTypes :
              /\ SlotDate(a, t) # None <=> get_latest_date(docs[t]) = a.max_release_date
              /\ SlotDate(a, t) # None => SlotDate(a, t) = a.max_release_date
\* statement dated D1, minutes dated D2 > D1
C7_Witness ==
    /\ Checked
    /\ get_latest_date(docs["statement"]) = DateOf(1)
    /\ get_latest_date(docs["minutes"]) = DateOf(2)
    /\ state.aligned_data.statement_release_date = None
    /\ state.aligned_data.max_release_date = DateOf(2)

\* C8: each slot of the aligned cycle is (target_date, body) or (None, None):
\* a release date never comes without its body, nor a body without its date.
C8_SlotShape ==
    Checked =>
        \A t \in DocTypes :
           LET a == state.aligned_data IN
           /\ SlotDate(a, t) = None <=> SlotBody(a, t) = None
           /\ SlotDate(a, t) # None => SlotDate(a, t) = a.max_release_date

\* C9: when the store holds no release date of any type after the
\* fetch/upsert step, target_date is undefined, the aligned cycle is
\* all-absent, the run ends skipped, the analysis is not invoked and the
\* verdict table is not written.
C9_EmptyStore ==
    (Checked /\ \A t \in DocTypes : docs[t] = {}) =>
        /\ state.aligned_data = EmptyAligned
        /\ ~state.should_run
        /\ pc = "END"
        /\ state.final_output.status = "skipped"
        /\ llm_calls = 0
        /\ monetary_policies = pre.monetary_policies
\* the store is empty although a fetcher answered with a document
C9_Witness ==
    /\ pc = "END"
    /\ \A t \in DocTypes : docs[t] = {}
    /\ \E t \in DocTypes : source[t].new_release_date # None
    /\ state.final_output.status = "skipped"

\* C10: every persisted release date is a calendar date not later than today
\* (so not later than the day it was written, and no latest date is a future
\* date), and a fetched date that is in the future or no calendar date does
\* not keep the scrape step from writing the other types.
C10_FutureDateGuard ==
    /\ \A t \in DocTypes : \A r \in docs[t] :
          /\ strptime_ok(r.release_date)
          /\ DateLE(r.release_date, Today)
    /\ \A t \in DocTypes :
          get_latest_date(docs[t]) # None => DateLE(get_latest_date(docs[t]), Today)
    /\ Scraped =>
          \A t \in DocTypes :
             LET f == source[t] IN
             (/\ f.new_release_date # None
              /\ strptime_ok(f.new_release_date)
              /\ DateLE(f.new_release_date, Today)) =>
                [release_date |-> f.new_release_date, body |-> f.body] \in docs[t]
\* one fetch resolved to a future date, another to a past one that was written
C10_Witness ==
    /\ Scraped
    /\ \E t1, t2 \in DocTypes :
          /\ source[t1].new_release_date # None
          /\ strptime_ok(source[t1].new_release_date)
          /\ ~DateLE(source[t1].new_release_date, Today)
          /\ \A r \in docs[t1] : r.release_date # source[t1].new_release_date
          /\ source[t2].new_release_date # None
          /\ \E r \in docs[t2] : r.release_date = source[t2].new_release_date

\* C12: in node_scrape_and_upsert a write the database fails is absorbed: no
\* exception leaves the node (a run that raised had decided to analyse),
\* every other type whose fetched date is valid
\* has its fetched row in the store afterwards, and the node hands the fetch
\* results on to node_pull_db_state with the final output as run() set it.
C12_WriteIsolation ==
    /\ pc = "RAISED" => state.should_run
    /\ Scraped =>
          \A t \in attempted(source, Today) \ failed :
             [release_date |-> source[t].new_release_date, body |-> source[t].body]
                \in docs[t]
    /\ pc = "pull_db_state" =>
          /\ state.fetch_results = source
          /\ state.final_output = initial_state(None).final_output
\* one type's write failed, another type's write of the same run is stored
C12_Witness ==
    /\ pc = "pull_db_state"
    /\ \E t1, t2 \in attempted(source, Today) :
          /\ t1 \in failed
          /\ \A r \in docs[t1] : r.release_date # source[t1].new_release_date
          /\ t2 \notin failed
          /\ [release_date |-> source[t2].new_release_date, body |-> source[t2].body]
                \in docs[t2]

\* C13: a run whose verdict write failed in the database ends with status
\* error, and a run that ends with status success has its verdict row in the
\* verdict table.
C13_VerdictWriteEscalated ==
    pc = "END" =>
       /\ "verdict" \in failed => state.final_output.status = "error"
       /\ state.final_output.status = "success" =>
             NewRow(row_data(state, Today)) \in monetary_policies

\* C14: when node_run_analysis raises or its model call, the extraction of
\* the text or the parse fails, the run ends with status error and the
\* exception's text as message, the verdict table is as it was when the run
\* started, and the analysis was invoked at most once.
C14_AnalysisFailureTerminal ==
    (/\ pc \in {"save_results", "END", "RAISED"}
     /\ state.should_run
     /\ state.analysis_result = None) =>
       /\ pc # "RAISED"
       /\ state.final_output = Output("error", "str(e)", None)
       /\ monetary_policies = pre.monetary_policies
       /\ llm_calls = 1

\* C15: what run() hands to its caller is a final output whose status is
\* success, skipped or error, with a message: no exception leaves run(), and
\* the output is not the initial one.
C15_FinalStatus ==
    /\ pc # "RAISED"
    /\ pc = "END" =>
          /\ state.final_output.status \in {"success", "skipped", "error"}
          /\ state.final_output.message # ""

\* C16: every step that inserts or overwrites a verdict row is the
\* node_save_results of a run whose analysis was called once and returned a
\* parsed result, and the row it writes carries that result; this holds of
\* every prefix of a run, so of a run that stops part-way or whose document
\* writes failed.
C16_VerdictAfterAnalysis ==
    [][monetary_policies' # monetary_policies =>
          /\ pc = "save_results"
          /\ llm_calls = 1
          /\ state.analysis_result \in Contents
          /\ \A r \in monetary_policies' \ monetary_policies :
                r.content = state.analysis_result]_vars
\* a run some of whose document writes failed has written its verdict
C16_Witness ==
    /\ pc = "END"
    /\ failed \cap DocTypes # {}
    /\ monetary_policies # pre.monetary_policies
    /\ \E r \in monetary_policies : r.content = state.analysis_result

\* C18: a run called with a target date D whose store holds a document of D
\* aligns the cycle of D (max_release_date is D), also when the store holds
\* later documents; a run called without one aligns the latest stored date.
C18_TargetOverride ==
    (Checked /\ state.aligned_data # EmptyAligned) =>
       /\ (/\ state.force_date # None
           /\ \E t \in DocTypes : \E r \in docs[t] : r.release_date = state.force_date)
             => state.aligned_data.max_release_date = state.force_date
       /\ state.force_date = None
             => state.aligned_data.max_release_date = max(StoredLatest)

\* C20: a run whose novelty decision is run has an aligned cycle with a date
\* node_save_results accepts as anchor, so a run whose analysis was invoked
\* does not end with the missing-anchor error; and a run that ends with that
\* error leaves the verdict table as it was when the run started.
C20_MissingAnchorUnreachable ==
    /\ (Checked /\ state.should_run) =>
          state.aligned_data.statement_release_date # None
    /\ (pc = "END" /\ llm_calls > 0) =>
          state.final_output.message # "Missing statement date"
    /\ (pc = "END" /\ state.final_output.message = "Missing statement date") =>
          monetary_policies = pre.monetary_policies

\* C17: after every upsert each document table holds at most one row per
\* release date; the row of the upserted key holds the body just given; the
\* other rows of the table and the other tables are as before; and the same
\* upsert called again leaves the store as it is.
C17_UpsertIdempotent ==
    [][upserted' # None =>
          LET u == upserted' IN
          /\ \A t \in DocTypes : \A r1, r2 \in docs'[t] :
                r1.release_date = r2.release_date => r1 = r2
          /\ [release_date |-> u.release_date, body |-> u.body] \in docs'[u.type]
          /\ \A r \in docs[u.type] \cup docs'[u.type] :
                r.release_date # u.release_date =>
                   (r \in docs[u.type] /\ r \in docs'[u.type])
          /\ \A t \in DocTypes \ {u.type} : docs'[t] = docs[t]
          /\ upsert_document(docs', u.type, u.release_date, u.body) = docs']_vars
\* an upsert replaced a different body under its key, next to another row
C17_Witness ==
    /\ upserted # None
    /\ upserted.old \notin {None, upserted.body}
    /\ Cardinality(docs[upserted.type]) = 2

\* C11: fetch_all_fomc_data raises nothing; a type whose request ended in a
\* 404, another error status, a network error or a parse error has the
\* absent result (no release date, empty body); and the result of a type is
\* the same whatever failure any other type meets.
C11_FetchDegradation ==
    /\ pc # "RAISED"
    /\ pc = "fetched" =>
          /\ \A t \in DocTypes : http[t] \in HttpFailures => source[t] = Absent
          /\ \A t \in DocTypes : \A u \in DocTypes \ {t} : \A r \in HttpFailures :
                LET again == fetch_all_from([http EXCEPT ![u] = r],
                                            state.force_date, Today)
                IN ~again.raised /\ again.results[t] = source[t]
\* every kind of failure met in one call, next to a type that was fetched
C11_Witness ==
    /\ pc = "fetched"
    /\ {http[t].outcome : t \in DocTypes} = {"network_error", "500", "parse_error", "200"}
    /\ \E t \in DocTypes :
          /\ source[t].new_release_date # None
          /\ source[t].body # EmptyText

\* C19: two runs on the same answers of the source, their statements
\* interleaved in any order: the verdict table holds at most one row per
\* statement date, every row written since the first run started is, field
\* for field, the row one of the two runs built from its own aligned cycle
\* and its own analysis result, and once both runs have ended the document
\* tables are those a single run leaves.
C19_OverlapConverge ==
    /\ \A r1, r2 \in monetary_policies :
          r1.statement_date = r2.statement_date => r1 = r2
    /\ \A r \in monetary_policies \ pre.monetary_policies :
          \E one \in {RunOf(pc, state, llm_calls), other} :
             /\ one.state.analysis_result # None
             /\ r = NewRow(row_data(one.state, Today))
    /\ (pc \in {"END", "RAISED"} /\ other.pc \in {"END", "RAISED"}) =>
          docs = scrape_blocks(pre.docs, source, Today, NoFaults).docs
\* both runs analysed the same cycle, with different results, and both wrote
C19_Witness ==
    /\ pc = "END"
    /\ other.pc = "END"
    /\ state.final_output.status = "success"
    /\ other.state.final_output.status = "success"
    /\ state.analysis_result # other.state.analysis_result
    /\ Cardinality(monetary_policies) = 1
    /\ \E t \in DocTypes : docs[t] # {}

\* C21: the history a run reads holds at most six verdicts in descending
\* order of their statement (anchor) date, and the verdict the novelty
\* decision compares against is the one with the greatest statement date in
\* the verdict table.
C21_HistoryByAnchor ==
    pc \in {"check_logic", "run_analysis", "save_results"} =>
       LET history == state.db_state.history IN
       /\ Cardinality(DOMAIN history) <= HistoryLimit
       /\ \A i, j \in DOMAIN history :
             i < j => ~DateLE(history[i].statement_date, history[j].statement_date)
       /\ monetary_policies # {} =>
             state.db_state.verdict.statement_date =
                max({r.statement_date : r \in monetary_policies})

\* the latest date of type t as node_pull_db_state read it
DbDate(db_state, t) ==
    CASE t = "statement" -> db_state.statement_date
      [] t = "minutes" -> db_state.minutes_date
      [] t = "projection_note" -> db_state.projection_date
      [] t = "implementation_note" -> db_state.implementation_date

Stages == <<"scrape_and_upsert", "pull_db_state", "check_logic", "run_analysis",
            "save_results">>
StageRank(p) ==
    IF \E i \in DOMAIN Stages : Stages[i] = p
    THEN CHOOSE i \in DOMAIN Stages : Stages[i] = p
    ELSE Len(Stages) + 1
StageAfter(p) ==
    CASE p = "scrape_and_upsert" -> {"pull_db_state"}
      [] p = "pull_db_state" -> {"check_logic"}
      [] p = "check_logic" -> {"run_analysis", "END"}
      [] p = "run_analysis" -> {"save_results", "RAISED"}
      [] p = "save_results" -> {"END"}
      [] OTHER -> {}

\* C23: within one call of run() every step leaves a stage for the stage the
\* order fetch+upsert, read, align+decide, analyse, commit puts after it (or,
\* after the decision, for the end; or by the exception of the analysis),
\* always further along that order, so that no stage runs twice; and a run
\* that is past the first stage holds all four fetch results.
C23_StageOrder ==
    [][/\ (runs' = runs /\ StageRank(pc) <= Len(Stages)) =>
             /\ pc' \in StageAfter(pc)
             /\ StageRank(pc') > StageRank(pc)
       /\ (pc' \notin {"idle", "scrape_and_upsert", "RAISED"} \/
           (pc' = "RAISED" /\ pc # "scrape_and_upsert")) =>
             /\ DOMAIN state'.fetch_results = DocTypes
             /\ state'.fetch_results = source']_vars
\* a run went through all five stages
C23_Witness ==
    /\ pc = "END"
    /\ llm_calls = 1
    /\ state.final_output.status = "success"
    /\ state.fetch_results = source

\* the (document_type, release_date) keys of a store
DocKeys(d) == UNION {{<<t, r.release_date>> : r \in d[t]} : t \in DocTypes}

\* C24: no step of any run, whatever fails in it and however it ends, takes
\* a (document_type, release_date) key out of the store.
C24_NeverDeleted ==
    [][DocKeys(docs) \subseteq DocKeys(docs')]_vars
\* a run that ended in error after a failed write added a key next to the
\* keys the store held before it
C24_Witness ==
    /\ pc = "END"
    /\ state.final_output.status = "error"
    /\ failed # {}
    /\ DocKeys(pre.docs) # {}
    /\ DocKeys(pre.docs) \subseteq DocKeys(docs)
    /\ DocKeys(docs) # DocKeys(pre.docs)


\* C25: a write that raises leaves its table exactly as it was before the
\* write, leaves no connection open, and the node that called it goes on
\* to its next node instead of letting an exception out
C25_FailedWriteRollsBack ==
    [][/\ pc = "scrape_and_upsert" =>
            /\ \A t \in failed' : docs'[t] = docs[t]
            /\ failed' # {} => pc' = "pull_db_state"
       /\ pc = "save_results" /\ "verdict" \in failed' =>
            /\ monetary_policies' = monetary_policies
            /\ pc' = "END"
       /\ connections' = 0]_vars

\* a document write failed: its row is not in the store, no connection is
\* left, and the run went on
C25_Witness ==
    /\ pc = "pull_db_state"
    /\ connections = 0
    /\ \E t \in failed : /\ source[t].new_release_date # None
                         /\ StoredBody(docs[t], source[t].new_release_date) = None
                         /\ docs[t] = pre.docs[t]


\* C26: the release date of a page that was fetched is the date of the
\* canonical URL the page carries (its og:url), whatever date was asked for;
\* a page that carries none is not given the date of the request
C26_DateFromCanonicalUrl ==
    pc = "fetched" =>
       \A t \in DocTypes :
          http[t].outcome = "200" =>
             source[t].new_release_date = extract_date_from_url(http[t].og_digits)

\* C27: the URL asked for holds the date as eight digits for every hint:
\* today's when there is none, the digits of the hint when it is given with
\* or without dashes
C27_UrlHasEightDigits ==
    pc = "fetched" =>
       LET url == request_url(state.force_date, Today) IN
       /\ IsDigits8(url)
       /\ extract_date_from_url(url) =
             IF state.force_date = None THEN Today
             ELSE extract_date_from_url(normalize_date(state.force_date, Today))


\* C28: the history in the message of the analysis has one item for each
\* item of the run's history, in the same order, each without its
\* execution_date and with every other field as it was; the history and the
\* last verdict the state holds are the same before and after
C28_HistoryStripped ==
    [][(pc = "run_analysis" /\ llm_calls' = llm_calls + 1) =>
          LET raw_history == state.aligned_data.history IN
          /\ DOMAIN sent_history' = DOMAIN raw_history
          /\ \A i \in DOMAIN raw_history :
                /\ DOMAIN sent_history'[i] = DOMAIN raw_history[i] \ {"execution_date"}
                /\ \A k \in DOMAIN sent_history'[i] :
                      sent_history'[i][k] = raw_history[i][k]
          /\ state'.aligned_data.history = raw_history
          /\ state'.db_state = state.db_state]_vars

\* the analysis was handed a history of two verdicts, each written on a day
\* the state still records
C28_Witness ==
    /\ pc = "save_results"
    /\ llm_calls = 1
    /\ Len(sent_history) = 2
    /\ Len(state.aligned_data.history) = 2
    /\ \A i \in 1..2 : state.aligned_data.history[i].execution_date # None


\* C29: in a run that decided skip the model is never called and the verdict
\* table is the one the run found, whatever the store holds and whichever
\* writes failed; the document tables have every key they had, and may have
\* more
C29_SkipChangesNoVerdict ==
    (Checked /\ ~state.should_run) =>
        /\ pc = "END"
        /\ llm_calls = 0
        /\ sent_history = None
        /\ monetary_policies = pre.monetary_policies
        /\ DocKeys(pre.docs) \subseteq DocKeys(docs)

\* a skipped run that upserted a document row, a verdict being on record
C29_Witness ==
    /\ pc = "END"
    /\ ~state.should_run
    /\ state.final_output.status = "skipped"
    /\ monetary_policies # {}
    /\ monetary_policies = pre.monetary_policies
    /\ DocKeys(docs) # DocKeys(pre.docs)


\* C30: a verdict row a step writes has the run's target date as its statement
\* date, and its minutes, projection note and implementation note dates are
\* each that same date or null; no row of the table holds a date other than
\* its statement date
C30_VerdictShape ==
    [][/\ \A v \in monetary_policies' \ monetary_policies :
             /\ pc = "save_results"
             /\ v.statement_date # None
             /\ v.statement_date = state.aligned_data.max_release_date
       /\ \A v \in monetary_policies' :
             /\ v.minutes_date \in {None, v.statement_date}
             /\ v.projection_note_date \in {None, v.statement_date}
             /\ v.implementation_note_date \in {None, v.statement_date}]_vars

\* a verdict written for a cycle with a projection note, the store holding
\* minutes of an older date that the row leaves out
C30_Witness ==
    /\ pc = "END"
    /\ \E v \in monetary_policies \ pre.monetary_policies :
          /\ v.statement_date = state.aligned_data.max_release_date
          /\ v.projection_note_date = v.statement_date
          /\ v.minutes_date = None
          /\ \E r \in docs["minutes"] : r.release_date # v.statement_date


\* C31: a run in which a read of the stored state failed does not decide run
\* for a cycle whose verdict the table already holds: the verdict with the
\* minutes date of the cycle when the minutes are its anchor, the verdict
\* with its statement date otherwise
C31_FailedReadNotNew ==
    (Checked /\ state.should_run /\ failed \cap Reads # {}) =>
        LET a == state.aligned_data IN
        ~\E v \in pre.monetary_policies :
            IF a.minutes_release_date # None
            THEN v.minutes_date = a.minutes_release_date
            ELSE v.statement_date = a.statement_release_date


\* C32: when the reads of a run succeed, the target date its alignment
\* computes is not earlier than the target date of the run before it, and a
\* verdict row that enters the table has a statement date not earlier than
\* that of any row already there
C32_TargetMonotonic ==
    [][/\ (pc = "check_logic" /\ failed \cap Reads = {} /\ last_target # None) =>
             /\ last_target' # None
             /\ DateLE(last_target, last_target')
             /\ state'.aligned_data.max_release_date = last_target'
       /\ \A v \in monetary_policies' \ monetary_policies :
             \A w \in monetary_policies :
                DateLE(w.statement_date, v.statement_date)]_vars

\* a second run aligned a later cycle than the first and wrote its verdict
\* next to the verdict of the first
C32_Witness ==
    /\ pc = "END"
    /\ runs = 2
    /\ last_target = DateOf(2)
    /\ state.aligned_data.max_release_date = last_target
    /\ DocKeys(pre.docs) # {}
    /\ \A k \in DocKeys(pre.docs) : k[2] = DateOf(1)
    /\ {v.statement_date : v \in monetary_policies} = {DateOf(1), DateOf(2)}
    /\ monetary_policies # pre.monetary_policies


\* C33: every run that enters the graph reaches the end of the graph, from
\* which run() returns the final output
C33_RunTerminates == (pc = "scrape_and_upsert") ~> (pc = "END")


\* C34: an entry point attempts the broadcast only for a run that returned
\* status success (with data); after a run that ended skipped or error no
\* message was sent; and the cron endpoint answers 200 when the status is
\* success or skipped and 500 in every other case
C34_NotifyOnSuccess ==
    job.entry # "none" =>
        /\ job.attempted => (job.status = "success" /\ job.data)
        /\ job.status \in {"skipped", "error"} => job.sent = 0
        /\ job.entry = "do_GET" =>
              job.response = IF job.status \in {"success", "skipped"} THEN 200 ELSE 500

\* the result is a non-empty list of chunks, each at most limit long, that
\* joined in order give the text, and a text within the limit comes back as
\* the one unchanged chunk
SplitLossless ==
    /\ ~split.raised
    /\ split.chunks # << >>
    /\ \A k \in 1..Len(split.chunks) : Len(split.chunks[k]) <= split.limit
    /\ Concat(split.chunks) = split.text
    /\ Len(split.text) <= split.limit => split.chunks = <<split.text>>

\* C35 (as stated): for every text and every limit, _split_message returns a
\* non-empty list of chunks, each of length at most limit, whose concatenation
\* in order is the text; a text no longer than limit is returned as a single
\* unchanged chunk.
C35_SplitAnyLimit == split.called => SplitLossless

\* C35 (amended): the same for every text and every limit of at least one
\* character.
C35_SplitPositiveLimit == (split.called /\ split.limit >= 1) => SplitLossless

\* a text longer than the limit, cut into full chunks and a shorter last one
C35_Witness ==
    /\ split.called
    /\ split.limit >= 1
    /\ Len(split.chunks) >= 3
    /\ Len(split.chunks[Len(split.chunks)]) < split.limit

\* the requests send_analysis posted for the at-th chat of its list
PostedTo(at) == SelectSeq(sending.log, LAMBDA m : m.chat = at)

\* C36: in send_analysis the chunks for one chat are sent in increasing part
\* order, a send failure for one chat stops the remaining chunks of that chat
\* only, every later chat in the list is still attempted, and send_analysis
\* itself never raises.
C36_BroadcastIsolation ==
    sending.called =>
        /\ ~sending.raised
        /\ \A k \in 1..(Len(sending.log) - 1) :
              sending.log[k].chat <= sending.log[k + 1].chat
        /\ \A at \in 1..Len(sending.chat_ids) :
              LET mine == PostedTo(at)
              IN  /\ mine # << >>
                  /\ \A k \in 1..Len(mine) :
                        /\ mine[k].part = k
                        /\ mine[k].chat_id = sending.chat_ids[at]
                        /\ mine[k].text
                              = final_chunk(sending.chunks[k], k, Len(sending.chunks))
                        /\ mine[k].ok <=> <<at, k>> \notin sending.fails
                        /\ ~mine[k].ok => k = Len(mine)
                  /\ mine[Len(mine)].ok => Len(mine) = Len(sending.chunks)

\* the first of two chats fails at its first part of several, and the second
\* chat receives every part
C36_Witness ==
    /\ sending.called
    /\ Len(sending.chat_ids) = 2
    /\ Len(sending.chunks) >= 2
    /\ <<1, 1>> \in sending.fails
    /\ Len(PostedTo(1)) = 1
    /\ Len(PostedTo(2)) = Len(sending.chunks)
    /\ \A k \in 1..Len(sending.chunks) : PostedTo(2)[k].ok

\* the rows of users.users a chat has
RowsOf(table, chat_id) == {u \in table : u.chat_id = chat_id}

\* C37: after any sequence of register_user calls there is at most one row per
\* chat_id; a registration of a chat that has a row sets that row's
\* first_name, last_name and username to the new ones and leaves its
\* register_date and is_bot, and every other row, as they were; a first
\* registration adds the row with today's date; a storage error changes
\* nothing; no call raises.
C37_RegisterUpsert ==
    [][ /\ \A u \in users' : Cardinality(RowsOf(users', u.chat_id)) = 1
        /\ \A u \in users :
              \E v \in users' :
                 /\ v.chat_id = u.chat_id
                 /\ v.register_date = u.register_date
                 /\ v.is_bot = u.is_bot
        /\ registered' # registered =>
              LET user_data == registered'.user_data
              IN  /\ registered'.called
                  /\ ~registered'.raised
                  /\ \A u \in users : u.chat_id # user_data.id => u \in users'
                  /\ (registered'.fault \/ user_data.id = None) => users' = users
                  /\ (~registered'.fault /\ user_data.id # None) =>
                        \E v \in users' :
                           /\ v.chat_id = user_data.id
                           /\ v.first_name = user_data.first_name
                           /\ v.last_name = user_data.last_name
                           /\ v.username = user_data.username
                           /\ RowsOf(users, user_data.id) = {} =>
                                 /\ v.register_date = DateOf(today)
                                 /\ v.is_bot = user_data.is_bot
                           /\ users' \subseteq users \cup {v}
      ]_vars

\* a chat registered again on a later day, as a bot this time and under other
\* names: the row has the new names, the first day and the first is_bot
C37_Witness ==
    /\ registered.called
    /\ ~registered.fault
    /\ \E u \in users :
          /\ u.chat_id = registered.user_data.id
          /\ u.first_name = registered.user_data.first_name
          /\ u.last_name = None
          /\ u.register_date # DateOf(today)
          /\ u.is_bot # registered.user_data.is_bot
====
